---- MODULE Spec2Model ----
(***************************************************************************)
(* Cardinality-constraint encoders of varisat-utils (src/src/lib.rs):      *)
(* the commander encoding (exactly one / at most one) and the sorting      *)
(* network encoding (exactly k), modelled as operators that extend a CNF   *)
(* formula, together with a complete solver that enumerates the models of  *)
(* the emitted clauses.                                                    *)
(*                                                                         *)
(* A variable is a positive integer (variable index + 1), the literal of   *)
(* variable v is v and its negation is -v.  A clause is a sequence of      *)
(* literals, a formula is the clause list and the variable counter.        *)
(***************************************************************************)
EXTENDS Integers, Sequences, FiniteSets, TLC

VARIABLES formula, lits, calls, pc, model

vars == <<formula, lits, calls, pc, model>>

\* ------------------------------------------------------------------------
\* Bounds of the model and constants of the program
\* ------------------------------------------------------------------------

\* largest variable list given to the commander-based builders
MaxOneVars == 7

\* a list long enough for two levels of commander groups
DeepVars == 16

\* largest variable list given to the sorting-network builders
MaxSortVars == 9

\* how far above the list length the k of exactly_k ranges
MaxExcess == 1

\* commander_exactly_one: lists shorter than this are one direct group
GroupThreshold == 6

\* commander_exactly_one: the divisor of the chunk size
SplitWays == 3

\* make_sorting_network: the modulus of the padding amount
PadModulus == 4

\* make_sorting_network: the largest size with a hardcoded swap table
MaxTableSize == 7

\* ------------------------------------------------------------------------
\* The formula capability (varisat::CnfFormula, as used by the code)
\* ------------------------------------------------------------------------

NewFormula == [clauses |-> <<>>, var_count |-> 0]

new_lit(F) == [f |-> [F EXCEPT !.var_count = @ + 1], lit |-> F.var_count + 1]

add_clause(F, c) == [F EXCEPT !.clauses = Append(@, c)]

\* a loop of add_clause calls, one per element of cs, in order
add_clauses(F, cs) == [F EXCEPT !.clauses = @ \o cs]

Min(a, b) == IF a < b THEN a ELSE b

\* ------------------------------------------------------------------------
\* commander_exactly_one, add_exactly_one, add_at_most_one
\* ------------------------------------------------------------------------

div_ceil(a, b) == (a + b - 1) \div b

\* chunks that drop a shorter last chunk (chunks_exact instead of chunks)
chunks_exact(s, size) ==
    [c \in 1..(Len(s) \div size) |-> SubSeq(s, (c - 1) * size + 1, c * size)]

chunks(s, size) ==
    [c \in 1..div_ceil(Len(s), size) |->
        SubSeq(s, (c - 1) * size + 1, Min(c * size, Len(s)))]

\* mutual exclusion of neighbours only (j = i - 1 instead of every j < i)
RECURSIVE mutual_exclusion_adjacent(_, _)
mutual_exclusion_adjacent(v, i) ==
    IF i > Len(v) THEN <<>>
    ELSE [j \in 1..Min(i - 1, 1) |-> <<-v[i], -v[i - 1]>>]
         \o mutual_exclusion_adjacent(v, i + 1)

\* the loops of lines 20-25: for i, for j < i, the clause (!v[i], !v[j])
RECURSIVE mutual_exclusion(_, _)
mutual_exclusion(v, i) ==
    IF i > Len(v) THEN <<>>
    ELSE [j \in 1..(i - 1) |-> <<-v[i], -v[j]>>] \o mutual_exclusion(v, i + 1)

\* only the first member is implied false by a false commander
commander_implied_first(commander, v) ==
    [i \in 1..Min(Len(v), 1) |-> <<commander, -v[i]>>]

\* the loop of lines 29-32: a false commander implies every member false
commander_implied(commander, v) ==
    [i \in 1..Len(v) |-> <<commander, -v[i]>>]

RECURSIVE commander_exactly_one(_, _)
RECURSIVE commander_chunks(_, _, _)

\* the loop of lines 14-16: one recursive commander per chunk
commander_chunks(F, cs, i) ==
    IF i > Len(cs) THEN [f |-> F, vars |-> <<>>]
    ELSE LET r == commander_exactly_one(F, cs[i])
             rest == commander_chunks(r.f, cs, i + 1)
         IN [f |-> rest.f, vars |-> <<r.lit>> \o rest.vars]

commander_exactly_one(F, input_variables) ==
    LET numvar == Len(input_variables)
        sub == IF numvar < GroupThreshold
               THEN [f |-> F, vars |-> input_variables]
               ELSE commander_chunks(
                        F, chunks(input_variables, div_ceil(numvar, SplitWays)), 1)
        variables == sub.vars
        nl == new_lit(sub.f)
        commander == nl.lit
        f1 == add_clauses(nl.f, mutual_exclusion(variables, 1))
        f2 == add_clause(f1, Append(variables, -commander))
        f3 == add_clauses(f2, commander_implied(commander, variables))
    IN [f |-> f3, lit |-> commander]

\* add_exactly_one without the unit clause of line 39
add_exactly_one_no_unit(F, input_variables) ==
    LET c == commander_exactly_one(F, input_variables)
    IN [f |-> c.f, lit |-> c.lit, status |-> "ok"]

add_exactly_one(F, input_variables) ==
    LET c == commander_exactly_one(F, input_variables)
    IN [f |-> add_clause(c.f, <<c.lit>>), lit |-> c.lit, status |-> "ok"]

add_at_most_one(F, input_variables) ==
    LET c == commander_exactly_one(F, input_variables)
    IN [f |-> add_clauses(c.f, commander_implied(c.lit, input_variables)),
        lit |-> c.lit, status |-> "ok"]

\* ------------------------------------------------------------------------
\* sort_swap, make_sorting_network, exactly_k
\* ------------------------------------------------------------------------

sort_swap(F, in1, in2) ==
    LET out1 == F.var_count + 1
        out2 == F.var_count + 2
    IN [f |-> [clauses |-> F.clauses \o <<
                   <<in1, in2, -out1>>,
                   <<in1, in2, -out2>>,
                   <<in1, -in2, -out1>>,
                   <<in1, -in2, out2>>,
                   <<-in1, in2, -out1>>,
                   <<-in1, in2, out2>>,
                   <<-in1, -in2, out1>>,
                   <<-in1, -in2, out2>> >>,
               var_count |-> F.var_count + 2],
        out1 |-> out1, out2 |-> out2]

\* the tables with the last comparator of the sizes 4..7 left out
swaps_short(n) ==
    CASE n = 0 -> <<>>
      [] n = 1 -> <<>>
      [] n = 2 -> << <<0, 1>> >>
      [] n = 3 -> << <<0, 2>>, <<0, 1>>, <<1, 2>> >>
      [] n = 4 -> << <<0, 2>>, <<1, 3>>, <<0, 1>>, <<2, 3>> >>
      [] n = 5 -> << <<0, 3>>, <<1, 4>>, <<0, 2>>, <<1, 3>>, <<0, 1>>,
                     <<2, 4>>, <<1, 2>>, <<3, 4>> >>
      [] n = 6 -> << <<0, 5>>, <<1, 3>>, <<2, 4>>, <<1, 2>>, <<3, 4>>,
                     <<0, 3>>, <<2, 5>>, <<0, 1>>, <<2, 3>>, <<4, 5>>,
                     <<1, 2>> >>
      [] n = 7 -> << <<0, 6>>, <<2, 3>>, <<4, 5>>, <<0, 2>>, <<1, 4>>,
                     <<3, 6>>, <<0, 1>>, <<2, 5>>, <<3, 4>>, <<1, 2>>,
                     <<4, 6>>, <<2, 3>>, <<4, 5>>, <<1, 2>>, <<3, 4>> >>

\* the hardcoded tables, index pairs counted from 0 as in the source
swaps(n) ==
    CASE n = 0 -> <<>>
      [] n = 1 -> <<>>
      [] n = 2 -> << <<0, 1>> >>
      [] n = 3 -> << <<0, 2>>, <<0, 1>>, <<1, 2>> >>
      [] n = 4 -> << <<0, 2>>, <<1, 3>>, <<0, 1>>, <<2, 3>>, <<1, 2>> >>
      [] n = 5 -> << <<0, 3>>, <<1, 4>>, <<0, 2>>, <<1, 3>>, <<0, 1>>,
                     <<2, 4>>, <<1, 2>>, <<3, 4>>, <<2, 3>> >>
      [] n = 6 -> << <<0, 5>>, <<1, 3>>, <<2, 4>>, <<1, 2>>, <<3, 4>>,
                     <<0, 3>>, <<2, 5>>, <<0, 1>>, <<2, 3>>, <<4, 5>>,
                     <<1, 2>>, <<3, 4>> >>
      [] n = 7 -> << <<0, 6>>, <<2, 3>>, <<4, 5>>, <<0, 2>>, <<1, 4>>,
                     <<3, 6>>, <<0, 1>>, <<2, 5>>, <<3, 4>>, <<1, 2>>,
                     <<4, 6>>, <<2, 3>>, <<4, 5>>, <<1, 2>>, <<3, 4>>,
                     <<5, 6>> >>

\* the loop of lines 119-123 over the table sw, from its i-th pair on
RECURSIVE apply_swaps(_, _, _, _)
apply_swaps(F, v, sw, i) ==
    IF i > Len(sw) THEN [f |-> F, vars |-> v]
    ELSE LET l == sw[i][1] + 1
             r == sw[i][2] + 1
             s == sort_swap(F, v[l], v[r])
         IN apply_swaps(s.f, [v EXCEPT ![l] = s.out1, ![r] = s.out2], sw, i + 1)

\* the loop of lines 128-132: count fresh literals, each forced true
RECURSIVE pad_true(_, _, _)
pad_true(F, v, count) ==
    IF count = 0 THEN [f |-> F, vars |-> v]
    ELSE LET nl == new_lit(F)
         IN pad_true(add_clause(nl.f, <<nl.lit>>), Append(v, nl.lit), count - 1)

\* the elements of v at the 0-based positions of parity par
by_parity(v, par) ==
    LET idx == {i \in 1..Len(v) : (i - 1) % 2 = par}
        cnt == Cardinality(idx)
    IN [j \in 1..cnt |-> v[2 * j - 1 + par]]

\* the loop of lines 157-160
interleave(evens, odds) ==
    [i \in 1..(2 * Len(odds)) |->
        IF i % 2 = 1 THEN evens[(i + 1) \div 2] ELSE odds[i \div 2]]

\* the loop of lines 162-168, i the 0-based index
RECURSIVE adjacent_swaps(_, _, _)
adjacent_swaps(F, v, i) ==
    IF i >= Len(v) - 1 THEN [f |-> F, vars |-> v]
    ELSE IF i % 2 = 1
         THEN LET s == sort_swap(F, v[i + 1], v[i + 2])
              IN adjacent_swaps(
                     s.f, [v EXCEPT ![i + 1] = s.out1, ![i + 2] = s.out2], i + 1)
         ELSE adjacent_swaps(F, v, i + 1)

padding_amount(n) == n % PadModulus

\* Returns the formula, the output literals, whether the assertion of line
\* 155 held everywhere, and a log with one entry per general-case
\* invocation: the length before padding, the padding amount, the padding
\* literals, the variable counter on entry, and the lengths of the working
\* list and of its parts after padding.
RECURSIVE make_sorting_network(_, _)
make_sorting_network(F, input) ==
    LET n == Len(input) IN
    IF n <= MaxTableSize
    THEN LET t == apply_swaps(F, input, swaps(n), 1)
         IN [f |-> t.f, vars |-> t.vars, ok |-> TRUE, log |-> <<>>]
    ELSE LET pa == padding_amount(n)
             p == pad_true(F, input, pa)
             half == Len(p.vars) \div 2
             right == make_sorting_network(
                          p.f, SubSeq(p.vars, half + 1, Len(p.vars)))
             left == make_sorting_network(right.f, SubSeq(p.vars, 1, half))
             joined == left.vars \o right.vars
             odds == make_sorting_network(left.f, by_parity(joined, 1))
             evens == make_sorting_network(odds.f, by_parity(joined, 0))
             same == Len(odds.vars) = Len(evens.vars)
             entry == [n |-> n, padding |-> pa, padded |-> Len(p.vars),
                       pads |-> SubSeq(p.vars, n + 1, Len(p.vars)),
                       fresh_from |-> F.var_count,
                       left |-> half, right |-> Len(p.vars) - half,
                       odds |-> Len(odds.vars), evens |-> Len(evens.vars)]
             sublog == right.log \o left.log \o odds.log \o evens.log
         IN IF ~(right.ok /\ left.ok /\ odds.ok /\ evens.ok /\ same)
            THEN [f |-> evens.f, vars |-> <<>>, ok |-> FALSE,
                  log |-> <<entry>> \o sublog]
            ELSE LET fx == adjacent_swaps(
                               evens.f, interleave(evens.vars, odds.vars), 1)
                 IN [f |-> fx.f,
                     vars |-> SubSeq(fx.vars, 1, Len(fx.vars) - pa),
                     ok |-> TRUE,
                     log |-> <<entry>> \o sublog]

\* vars.len() - k - 1 and vars.len() - k are usize subtractions: below zero
\* they panic (overflow checks) or wrap to a value near 2^64, which is out
\* of range of the index; either way the call panics at line 187.
exactly_k(F, input, k) ==
    LET n == Len(input) IN
    IF k = 0
    THEN [f |-> add_clauses(F, [i \in 1..n |-> <<-input[i]>>]),
          status |-> "ok", log |-> <<>>]
    ELSE IF k = n
    THEN [f |-> add_clauses(F, [i \in 1..n |-> <<input[i]>>]),
          status |-> "ok", log |-> <<>>]
    ELSE IF k = 1
    THEN [f |-> add_exactly_one(F, input).f, status |-> "ok", log |-> <<>>]
    ELSE LET s == make_sorting_network(F, input)
             sorted == s.vars
         IN IF ~s.ok \/ n < k + 1 \/ n - k - 1 >= Len(sorted)
            THEN [f |-> s.f, status |-> "panic", log |-> s.log]
            ELSE [f |-> add_clause(
                            add_clause(s.f, <<-sorted[n - k - 1 + 1]>>),
                            <<sorted[n - k + 1]>>),
                  status |-> "ok", log |-> s.log]

\* ------------------------------------------------------------------------
\* The solver of the test harness (solve_print): all models of the clauses
\* that extend a partial valuation.  A valuation maps each variable to
\* 1 (true), -1 (false) or 0 (unassigned).
\* ------------------------------------------------------------------------

lit_value(val, l) == IF l > 0 THEN val[l] ELSE 0 - val[0 - l]

\* the effect of one clause on a valuation: nothing when a literal is true,
\* a conflict when every literal is false, the last open literal made true
unit_step(val, c) ==
    IF \E i \in 1..Len(c) : lit_value(val, c[i]) = 1
    THEN [ok |-> TRUE, val |-> val]
    ELSE LET open == {c[i] : i \in {j \in 1..Len(c) : lit_value(val, c[j]) = 0}}
         IN IF open = {} THEN [ok |-> FALSE, val |-> val]
            ELSE IF Cardinality(open) = 1
                 THEN LET l == CHOOSE x \in open : TRUE
                      IN [ok |-> TRUE,
                          val |-> IF l > 0 THEN [val EXCEPT ![l] = 1]
                                  ELSE [val EXCEPT ![0 - l] = -1]]
                 ELSE [ok |-> TRUE, val |-> val]

\* one pass over the clauses lo..hi in order, stopping at a conflict
\* (the range is halved to keep the evaluation shallow)
RECURSIVE propagate_pass(_, _, _, _)
propagate_pass(cls, lo, hi, val) ==
    IF lo > hi THEN [ok |-> TRUE, val |-> val]
    ELSE IF lo = hi THEN unit_step(val, cls[lo])
    ELSE LET mid == (lo + hi) \div 2
             first == propagate_pass(cls, lo, mid, val)
         IN IF first.ok THEN propagate_pass(cls, mid + 1, hi, first.val)
            ELSE first

\* passes until nothing changes
RECURSIVE propagate(_, _)
propagate(cls, val) ==
    LET p == propagate_pass(cls, 1, Len(cls), val)
    IN IF ~p.ok \/ p.val = val THEN p ELSE propagate(cls, p.val)

RECURSIVE all_models(_, _)
all_models(cls, val) ==
    LET p == propagate(cls, val)
        free == {v \in 1..Len(val) : p.val[v] = 0}
    IN IF ~p.ok THEN {}
       ELSE IF free = {} THEN {p.val}
       ELSE LET v == CHOOSE x \in free : \A y \in free : x <= y
            IN all_models(cls, [p.val EXCEPT ![v] = 1])
               \cup all_models(cls, [p.val EXCEPT ![v] = -1])

\* the models of formula F in which the variables 1..Len(a) take the
\* values a (the effect of one unit clause per input, as the tests add them)
solve(F, a) ==
    all_models(F.clauses, a \o [v \in 1..(F.var_count - Len(a)) |-> 0])

\* ------------------------------------------------------------------------
\* The state machine: a formula is created, a list of fresh literals is
\* allocated, builders are called on the list or on slices of it, and the
\* formula is solved with the inputs fixed.
\* ------------------------------------------------------------------------

NoModel == [solved |-> FALSE, assumed |-> <<>>, models |-> {}]

\* the slices lits[lo-1..hi] of a list of n literals, the empty one once
Slices(n) ==
    {<<1, 0>>} \cup {s \in (1..n) \X (1..n) : s[1] <= s[2]}

Slice(s) == SubSeq(lits, s[1], s[2])

Call(fn, s, k, ret, status, log) ==
    [fn |-> fn, lo |-> s[1], hi |-> s[2], k |-> k, base |-> formula.var_count,
     ret |-> ret, status |-> status, log |-> log]

Init ==
    /\ formula = NewFormula
    /\ lits = <<>>
    /\ calls = <<>>
    /\ pc = "new"
    /\ model = NoModel

NewLitIter(n) ==
    /\ pc = "new"
    /\ lits' = [i \in 1..n |-> i]
    /\ formula' = [formula EXCEPT !.var_count = n]
    /\ pc' = "vars"
    /\ UNCHANGED <<calls, model>>

CallCommanderExactlyOne ==
    /\ pc = "vars"
    /\ LET r == commander_exactly_one(formula, lits)
       IN /\ formula' = r.f
          /\ calls' = <<Call("commander_exactly_one", <<1, Len(lits)>>, 0,
                             <<r.lit>>, "ok", <<>>)>>
    /\ pc' = "built"
    /\ UNCHANGED <<lits, model>>

\* the first call is on the whole list, at most two more on slices of it
\* (of the lists up to MaxOneVars)
CallAddExactlyOne(s) ==
    /\ \/ pc = "vars" /\ s = <<1, Len(lits)>>
       \/ /\ pc = "built"
          /\ Len(lits) <= MaxOneVars
          /\ Len(calls) \in {1, 2}
          /\ \A i \in 1..Len(calls) : calls[i].fn = "add_exactly_one"
    /\ LET r == add_exactly_one(formula, Slice(s))
       IN /\ formula' = r.f
          /\ calls' = Append(calls, Call("add_exactly_one", s, 0,
                                         <<r.lit>>, r.status, <<>>))
    /\ pc' = "built"
    /\ UNCHANGED <<lits, model>>

CallAddAtMostOne ==
    /\ pc = "vars"
    /\ LET r == add_at_most_one(formula, lits)
       IN /\ formula' = r.f
          /\ calls' = <<Call("add_at_most_one", <<1, Len(lits)>>, 0,
                             <<r.lit>>, r.status, <<>>)>>
    /\ pc' = "built"
    /\ UNCHANGED <<lits, model>>

CallMakeSortingNetwork ==
    /\ pc = "vars"
    /\ LET r == make_sorting_network(formula, lits)
       IN /\ formula' = r.f
          /\ calls' = <<Call("make_sorting_network", <<1, Len(lits)>>, 0,
                             r.vars, IF r.ok THEN "ok" ELSE "panic", r.log)>>
    /\ pc' = "built"
    /\ UNCHANGED <<lits, model>>

CallExactlyK(k) ==
    /\ pc = "vars"
    /\ LET r == exactly_k(formula, lits, k)
       IN /\ formula' = r.f
          /\ calls' = <<Call("exactly_k", <<1, Len(lits)>>, k,
                             <<>>, r.status, r.log)>>
    /\ pc' = "built"
    /\ UNCHANGED <<lits, model>>

Solve(a) ==
    /\ pc = "built"
    /\ \A i \in 1..Len(calls) : calls[i].status = "ok"
    /\ model' = [solved |-> TRUE, assumed |-> a, models |-> solve(formula, a)]
    /\ pc' = "solved"
    /\ UNCHANGED <<formula, lits, calls>>

Assignments(n) == [1..n -> {-1, 1}]

\* the valuations with at most two true inputs
SparseAssignments(n) ==
    {[i \in 1..n |-> IF i = p[1] \/ i = p[2] THEN 1 ELSE -1] :
        p \in (0..n) \X (0..n)}

\* every valuation of a list up to MaxOneVars, the sparse ones of a longer
OneAssignments(n) ==
    IF n <= MaxOneVars THEN Assignments(n) ELSE SparseAssignments(n)

\* the commander-based builders
NextOne ==
    \/ \E n \in (0..MaxOneVars) \cup {DeepVars} : NewLitIter(n)
    \/ CallCommanderExactlyOne
    \/ \E s \in Slices(Len(lits)) : CallAddExactlyOne(s)
    \/ CallAddAtMostOne
    \/ \E a \in OneAssignments(Len(lits)) : Solve(a)

SpecOne == Init /\ [][NextOne]_vars

\* the sorting-network builders
NextSort ==
    \/ \E n \in 0..MaxSortVars : NewLitIter(n)
    \/ CallMakeSortingNetwork
    \/ \E k \in 0..(Len(lits) + MaxExcess) : CallExactlyK(k)
    \/ \E a \in Assignments(Len(lits)) : Solve(a)

SpecSort == Init /\ [][NextSort]_vars

\* the hardcoded tables alone
NextTable ==
    \/ \E n \in 0..MaxTableSize : NewLitIter(n)
    \/ CallMakeSortingNetwork
    \/ \E a \in Assignments(Len(lits)) : Solve(a)

SpecTable == Init /\ [][NextTable]_vars

Next == NextOne \/ NextSort \/ NextTable

Spec == Init /\ [][Next]_vars

\* ------------------------------------------------------------------------
\* Properties
\* ------------------------------------------------------------------------

\* the number of inputs lo..hi that the valuation a makes true
TrueCount(a, lo, hi) == Cardinality({i \in lo..hi : a[i] = 1})

NumVars == Len(lits)

Solved == pc = "solved"

\* the only call was fn, on the whole list
Only(fn) == Len(calls) = 1 /\ calls[1].fn = fn

Inputs == TrueCount(model.assumed, 1, NumVars)

\* C1: for N >= 1 and 0 <= k <= N the formula of exactly_k(vars, k) has a
\* model with given input values exactly when k of the inputs are true: it
\* is satisfiable and every model has exactly k true inputs.
C1_ExactlyKCountsK ==
    (Solved /\ Only("exactly_k") /\ NumVars >= 1 /\ calls[1].k <= NumVars)
        => ((model.models # {}) <=> (Inputs = calls[1].k))

\* C2: make_sorting_network over N inputs returns N outputs, and in every
\* model of the emitted clauses output[i] is true iff at least N - i inputs
\* are true.
C2_NetworkSorts ==
    Only("make_sorting_network")
        => /\ Len(calls[1].ret) = NumVars
           /\ Solved =>
                \A m \in model.models : \A i \in 0..(NumVars - 1) :
                    (m[calls[1].ret[i + 1]] = 1) <=> (Inputs >= NumVars - i)

\* C3: for N >= 1 the formula of add_exactly_one over N fresh variables has
\* a model with given input values exactly when one input is true, for
\* N below the group threshold and for N at or above it.
C3_ExactlyOne ==
    (Solved /\ Only("add_exactly_one") /\ NumVars >= 1)
        => ((model.models # {}) <=> (Inputs = 1))

C3_Witness ==
    /\ Solved /\ Only("add_exactly_one")
    /\ NumVars >= GroupThreshold
    /\ model.assumed[NumVars] = 1
    /\ Inputs = 1
    /\ model.models # {}

\* C4: the formula of add_at_most_one over N >= 1 fresh variables has a
\* model with all inputs false, a model for each single true input, and
\* none when two or more inputs are true.
C4_AtMostOne ==
    (Solved /\ Only("add_at_most_one") /\ NumVars >= 1)
        => ((model.models # {}) <=> (Inputs <= 1))

\* two true inputs in different top-level chunks of a two-level grouping
\* are refused
C4_Witness ==
    /\ Solved /\ Only("add_at_most_one")
    /\ NumVars >= GroupThreshold * SplitWays - (SplitWays - 1)
    /\ model.assumed[1] = 1 /\ model.assumed[NumVars] = 1
    /\ Inputs = 2
    /\ model.models = {}

\* C5: for a non-empty list, in every model of the clauses of
\* commander_exactly_one the returned literal is true iff at least one
\* input is true, and at most one input is true, whatever the commander.
C5_Commander ==
    (Solved /\ Only("commander_exactly_one") /\ NumVars >= 1)
        => \A m \in model.models :
               /\ (m[calls[1].ret[1]] = 1) <=> (Inputs >= 1)
               /\ Inputs <= 1

C5_Witness ==
    /\ Solved /\ Only("commander_exactly_one")
    /\ NumVars >= GroupThreshold
    /\ Inputs = 1
    /\ \E m \in model.models : m[calls[1].ret[1]] = 1

\* every call so far was add_exactly_one
AllExactlyOne == \A i \in 1..Len(calls) : calls[i].fn = "add_exactly_one"

\* the valuation a makes exactly one input of the slice of each call true
OneInEachSlice(a) ==
    \A i \in 1..Len(calls) : TrueCount(a, calls[i].lo, calls[i].hi) = 1

\* C6: with several add_exactly_one calls on overlapping slices, the
\* formula has a model with given input values exactly when one input of
\* each slice is true (so it is satisfiable iff some input valuation does
\* that), and the commander of each call is a variable no earlier call or
\* input used.
C6_Overlapping ==
    (Len(calls) >= 2 /\ AllExactlyOne)
        => /\ \A i \in 1..Len(calls) : calls[i].ret[1] > calls[i].base
           /\ Solved =>
                ((model.models # {}) <=> OneInEachSlice(model.assumed))

\* exactly_one({a,b,c,d}), exactly_one({a,b}), exactly_one({c,d}): no model
C6_Witness ==
    /\ Solved /\ AllExactlyOne
    /\ NumVars = 4 /\ Len(calls) = 3
    /\ <<calls[1].lo, calls[1].hi>> = <<1, 4>>
    /\ <<calls[2].lo, calls[2].hi>> = <<1, 2>>
    /\ <<calls[3].lo, calls[3].hi>> = <<3, 4>>
    /\ model.models = {}

\* C7: add_exactly_one on an empty list ends with an error outcome.
C7_EmptyListRejected ==
    \A i \in 1..Len(calls) :
        (calls[i].fn = "add_exactly_one" /\ calls[i].hi < calls[i].lo)
            => calls[i].status # "ok"

\* C8: exactly_k with k > N ends with an error outcome and never returns
\* normally.
C8_OutOfRangeRejected ==
    (Only("exactly_k") /\ calls[1].k > NumVars) => calls[1].status # "ok"

\* C9: at every general-case level of make_sorting_network, padding
\* literals (fresh, each forced true by a unit clause) are appended exactly
\* when the length is not a multiple of 4, and the padded length is a
\* multiple of 4, so the halves and the even and odd subsequences have
\* equal, even lengths.
C9_PaddedToMultipleOfFour ==
    \A c \in 1..Len(calls) : \A j \in 1..Len(calls[c].log) :
        LET e == calls[c].log[j] IN
        /\ (e.padding > 0) <=> (e.n % 4 # 0)
        /\ Len(e.pads) = e.padding
        /\ \A q \in 1..Len(e.pads) :
              /\ e.pads[q] > e.fresh_from
              /\ \E x \in 1..Len(formula.clauses) :
                    formula.clauses[x] = <<e.pads[q]>>
        /\ e.padded % 4 = 0
        /\ e.left = e.right /\ e.left % 2 = 0
        /\ e.odds = e.evens /\ e.odds % 2 = 0

\* the outputs of the only call, in the model m
Outputs(m) == [i \in 1..Len(calls[1].ret) |-> m[calls[1].ret[i]]]

\* C10: for N in 2..7 the table of size N, applied as gates that put the
\* AND at position l and the OR at position r, sorts every input vector:
\* all false outputs come before all true ones and as many outputs as
\* inputs are true.
C10_TablesSort ==
    (Solved /\ Only("make_sorting_network") /\ NumVars \in 2..MaxTableSize)
        => /\ model.models # {}
           /\ \A m \in model.models :
                LET out == Outputs(m) IN
                /\ Len(out) = NumVars
                /\ \A i \in 1..NumVars : \A j \in 1..NumVars :
                      (i < j /\ out[i] = 1) => out[j] = 1
                /\ TrueCount(out, 1, NumVars) = Inputs
                /\ NumVars = 2 =>
                      /\ (out[1] = 1) <=>
                            (model.assumed[1] = 1 /\ model.assumed[2] = 1)
                      /\ (out[2] = 1) <=>
                            (model.assumed[1] = 1 \/ model.assumed[2] = 1)

\* an unsorted input of the largest table size
C10_Witness ==
    /\ Solved /\ Only("make_sorting_network")
    /\ NumVars = MaxTableSize
    /\ model.assumed[1] = 1 /\ model.assumed[NumVars] = -1
    /\ Inputs = 3
    /\ \E m \in model.models : Outputs(m)[NumVars - 2] = 1

====
